---- MODULE Spec2Model ----
(***************************************************************************)
(* Model of ai-service-factory.js: the two provider adapters               *)
(* (AnthropicService, OpenAIService) and the AIServiceFactory.             *)
(*                                                                         *)
(* Three specifications share the variables:                               *)
(*   SpecStream   one streamAnalysis call driven by a consumer and a       *)
(*                vendor transport;                                        *)
(*   SpecFactory  create / getConfigFromEnv / isProviderConfigured /       *)
(*                getAvailableProviders over a fixed process environment;  *)
(*   SpecVision   one visionAnalysis call.                                 *)
(*                                                                         *)
(* Text is modelled as a sequence of tokens, so that concatenation (\o)    *)
(* and the data-URL template are computed, not assumed.                    *)
(***************************************************************************)
EXTENDS Integers, Sequences, FiniteSets, TLC

VARIABLES
  env,         \* process.env, as far as the factory reads it
  service,     \* the AIService instance whose operation is running
  gen,         \* position of the streamAnalysis async generator
  stream,      \* state of the vendor stream the adapter iterates
  emitted,     \* chunks the adapter has pulled from the vendor stream
  events,      \* StreamChunk events handed to the consumer, in order
  raised,      \* TRUE once an exception has reached the consumer
  abandoned,   \* TRUE once the consumer left the iteration early
  result,      \* the last call made and what it returned or threw
  instances,   \* AIService instances returned by create
  clients,     \* vendor SDK clients constructed
  requests,    \* requests issued to a vendor over the network
  log,         \* calls made to the logger
  aiConfig,    \* the AIConfig the instance in service was created from
  info         \* the descriptor the last getModelInfo call returned

streamVars == <<service, gen, stream, emitted, events, raised, abandoned>>

factoryVars == <<env, instances, clients>>

infoVars == <<aiConfig, info>>

vars ==
  <<env, service, gen, stream, emitted, events, raised, abandoned, result,
    instances, clients, requests, log, aiConfig, info>>

(***************************************************************************)
(* Bounds                                                                  *)
(***************************************************************************)
\* longest vendor stream considered, in chunks
MaxChunks == 3

\* most calls of create considered in one run of the factory
MaxCreates == 2

\* longest VisionMessage sequence considered
MaxFragments == 2

\* text deltas a vendor may carry; <<>> is the empty string
Texts == {<<>>, <<"Ran">>, <<"som", "ware">>}

\* values a vendor SDK may throw: an Error whose message may be empty
Errors == {[message |-> <<"rate", "limited">>], [message |-> <<>>]}

(***************************************************************************)
(* Values                                                                  *)
(***************************************************************************)
\* the JavaScript value undefined, where a string is expected
undefined == "<undefined>"

\* truthiness of a string-or-undefined value: '' and undefined are falsy
Truthy(v) == v # undefined /\ v # ""

\* a || b
Or(a, b) == IF Truthy(a) THEN a ELSE b

\* all process environments: every variable the factory reads, unset
\* (undefined), set to the empty string, or set to a value
AllEnvironments ==
  [AI_PROVIDER : {undefined, "", "anthropic", "openai", "gemini"},
   ANTHROPIC_API_KEY : {undefined, "", "sk-ant-1"},
   ANTHROPIC_BASE_URL : {undefined, "https://claude.proxy"},
   ANTHROPIC_MODEL : {undefined, "claude-3-5-sonnet-20241022"},
   OPENAI_API_KEY : {undefined, "", "sk-oai-1"},
   OPENAI_BASE_URL : {undefined, "https://gpt.proxy"},
   OPENAI_MODEL : {undefined, "gpt-4-turbo"}]

\* the environments considered: the two vendors' endpoint overrides are set
\* or unset together, and so are their model overrides
Environments ==
  {e \in AllEnvironments :
     /\ (e.ANTHROPIC_BASE_URL = undefined) = (e.OPENAI_BASE_URL = undefined)
     /\ (e.ANTHROPIC_MODEL = undefined) = (e.OPENAI_MODEL = undefined)}

\* arguments callers pass where an AIProvider is expected; "gemini" stands
\* for any string outside the AIProvider type
ProviderArgs == {undefined, "", "anthropic", "openai", "gemini"}

\* AIConfig values callers hand to create directly
Configs ==
  [provider : {"anthropic", "openai", "gemini"},
   apiKey : {"sk-1"},
   baseURL : {undefined},
   model : {undefined}]
  \cup {[provider |-> "openai", apiKey |-> "sk-1", baseURL |-> undefined,
         model |-> "gpt-3.5-turbo"]}

(***************************************************************************)
(* The adapters' constructors                                              *)
(***************************************************************************)
\* new Anthropic({ apiKey, baseURL }) / new OpenAI({ apiKey, baseURL })
Client(vendor, config) ==
  [vendor |-> vendor, apiKey |-> config.apiKey, baseURL |-> config.baseURL]

AnthropicService(config) ==
  [provider |-> "anthropic",
   client |-> Client("Anthropic", config),
   model |-> Or(config.model, "claude-sonnet-4-20250514")]

OpenAIService(config) ==
  [provider |-> "openai",
   client |-> Client("OpenAI", config),
   model |-> Or(config.model, "gpt-4o")]

(***************************************************************************)
(* AIServiceFactory                                                        *)
(***************************************************************************)
\* logger.info(`Creating AI service: ${provider} with model ${model || 'default'}`)
CreateLog(config) ==
  [level |-> "info",
   text |-> "Creating AI service:",
   provider |-> config.provider,
   model |-> Or(config.model, "default")]

\* variant: the service is constructed before the dispatch
createEager(config) ==
  LET built == IF config.provider = "openai" THEN OpenAIService(config)
               ELSE AnthropicService(config)
  IN [logged |-> <<CreateLog(config)>>,
      constructed |-> <<built.client>>,
      ret |-> IF config.provider \in {"anthropic", "openai"}
              THEN [ok |-> TRUE, instance |-> built]
              ELSE [ok |-> FALSE,
                    error |-> <<"Unsupported AI provider:", config.provider>>]]

\* create: what it logs, the clients it constructs, what it returns
create(config) ==
  [logged |-> <<CreateLog(config)>>,
   constructed |->
     CASE config.provider = "anthropic" -> <<AnthropicService(config).client>>
       [] config.provider = "openai" -> <<OpenAIService(config).client>>
       [] OTHER -> <<>>,
   ret |->
     CASE config.provider = "anthropic" ->
            [ok |-> TRUE, instance |-> AnthropicService(config)]
       [] config.provider = "openai" ->
            [ok |-> TRUE, instance |-> OpenAIService(config)]
       [] OTHER ->
            [ok |-> FALSE,
             error |-> <<"Unsupported AI provider:", config.provider>>]]

\* variant: an unknown identity is treated as anthropic
getConfigFromEnvDefaulting(e, p) ==
  LET envProvider == Or(p, Or(e.AI_PROVIDER, "anthropic"))
  IN IF envProvider = "openai"
     THEN IF ~Truthy(e.OPENAI_API_KEY)
          THEN [ok |-> FALSE, error |-> <<"OPENAI_API_KEY", "not configured">>]
          ELSE [ok |-> TRUE,
                config |-> [provider |-> "openai",
                            apiKey |-> e.OPENAI_API_KEY,
                            baseURL |-> e.OPENAI_BASE_URL,
                            model |-> e.OPENAI_MODEL]]
     ELSE IF ~Truthy(e.ANTHROPIC_API_KEY)
          THEN [ok |-> FALSE,
                error |-> <<"ANTHROPIC_API_KEY", "not configured">>]
          ELSE [ok |-> TRUE,
                config |-> [provider |-> "anthropic",
                            apiKey |-> e.ANTHROPIC_API_KEY,
                            baseURL |-> e.ANTHROPIC_BASE_URL,
                            model |-> e.ANTHROPIC_MODEL]]

\* getConfigFromEnv(provider) in environment e: the config, or the Error
getConfigFromEnv(e, p) ==
  LET envProvider == Or(p, Or(e.AI_PROVIDER, "anthropic"))
  IN IF envProvider = "anthropic"
     THEN IF ~Truthy(e.ANTHROPIC_API_KEY)
          THEN [ok |-> FALSE,
                error |-> <<"ANTHROPIC_API_KEY", "not configured">>]
          ELSE [ok |-> TRUE,
                config |-> [provider |-> "anthropic",
                            apiKey |-> e.ANTHROPIC_API_KEY,
                            baseURL |-> e.ANTHROPIC_BASE_URL,
                            model |-> e.ANTHROPIC_MODEL]]
     ELSE IF envProvider = "openai"
     THEN IF ~Truthy(e.OPENAI_API_KEY)
          THEN [ok |-> FALSE, error |-> <<"OPENAI_API_KEY", "not configured">>]
          ELSE [ok |-> TRUE,
                config |-> [provider |-> "openai",
                            apiKey |-> e.OPENAI_API_KEY,
                            baseURL |-> e.OPENAI_BASE_URL,
                            model |-> e.OPENAI_MODEL]]
     ELSE [ok |-> FALSE, error |-> <<"Invalid AI provider:", envProvider>>]

\* variant: without the try/catch
isProviderConfiguredNoCatch(e, p) ==
  LET r == getConfigFromEnv(e, p)
  IN IF r.ok THEN [threw |-> FALSE, value |-> Truthy(r.config.apiKey)]
     ELSE [threw |-> TRUE, value |-> FALSE]

\* isProviderConfigured: !!config.apiKey, or false from the catch clause
isProviderConfigured(e, p) ==
  LET r == getConfigFromEnv(e, p)
  IN IF r.ok THEN [threw |-> FALSE, value |-> Truthy(r.config.apiKey)]
     ELSE [threw |-> FALSE, value |-> FALSE]

\* variant: openai first
getAvailableProvidersReversed(e) ==
  (IF Truthy(e.OPENAI_API_KEY) THEN <<"openai">> ELSE <<>>)
  \o (IF Truthy(e.ANTHROPIC_API_KEY) THEN <<"anthropic">> ELSE <<>>)

\* getAvailableProviders: anthropic first, then openai
getAvailableProviders(e) ==
  (IF Truthy(e.ANTHROPIC_API_KEY) THEN <<"anthropic">> ELSE <<>>)
  \o (IF Truthy(e.OPENAI_API_KEY) THEN <<"openai">> ELSE <<>>)

(***************************************************************************)
(* Vendor chunks                                                           *)
(***************************************************************************)
\* events of an Anthropic message stream; the delta event without a delta
\* is a malformed one
AnthropicChunks ==
  {[type |-> "message_start"], [type |-> "message_stop"]}
  \cup {[type |-> "content_block_delta"]}
  \cup {[type |-> "content_block_delta",
         delta |-> [type |-> "input_json_delta", partial_json |-> <<"{">>]]}
  \cup {[type |-> "content_block_delta",
         delta |-> [type |-> "text_delta", text |-> t]] : t \in Texts}

\* chunks of an OpenAI chat completion stream; the chunk without choices
\* is a malformed one
OpenAIChunks ==
  {[id |-> "chatcmpl-1"], [choices |-> <<>>]}
  \cup {[choices |-> <<[delta |-> [role |-> "assistant"]]>>]}
  \cup {[choices |-> <<[delta |-> [content |-> t]]>>] : t \in Texts}

VendorChunks(p) == IF p = "anthropic" THEN AnthropicChunks ELSE OpenAIChunks

(***************************************************************************)
(* The generator body                                                      *)
(***************************************************************************)
ContentEvent(t) == [type |-> "content", text |-> t]

DoneEvent == [type |-> "done"]

\* variant: drops text deltas whose text is empty
AnthropicYieldBug(chunk) ==
  IF chunk.type = "content_block_delta" /\ chunk.delta.type = "text_delta"
     /\ chunk.delta.text # <<>>
  THEN <<ContentEvent(chunk.delta.text)>>
  ELSE <<>>

\* chunk.type === 'content_block_delta' && chunk.delta.type === 'text_delta'
AnthropicYield(chunk) ==
  IF chunk.type = "content_block_delta" /\ chunk.delta.type = "text_delta"
  THEN <<ContentEvent(chunk.delta.text)>>
  ELSE <<>>

\* chunk.choices[0]?.delta?.content, as <<>> (undefined) or <<text>>
OpenAIContent(chunk) ==
  IF Len(chunk.choices) = 0 THEN <<>>
  ELSE IF "content" \in DOMAIN chunk.choices[1].delta
       THEN <<chunk.choices[1].delta.content>>
       ELSE <<>>

\* variant: forwards every delta that has a content string, '' included
OpenAIYieldBug(chunk) ==
  LET content == OpenAIContent(chunk)
  IN IF content # <<>> THEN <<ContentEvent(content[1])>> ELSE <<>>

\* if (content) yield ...: undefined and the empty string are both falsy
OpenAIYield(chunk) ==
  LET content == OpenAIContent(chunk)
  IN IF content # <<>> /\ content[1] # <<>>
     THEN <<ContentEvent(content[1])>>
     ELSE <<>>

ChunkYield(p, chunk) ==
  IF p = "anthropic" THEN AnthropicYield(chunk) ELSE OpenAIYield(chunk)

\* the loop body throws a TypeError: chunk.delta.type with no delta,
\* chunk.choices[0] with no choices
ChunkThrows(p, chunk) ==
  IF p = "anthropic"
  THEN chunk.type = "content_block_delta" /\ "delta" \notin DOMAIN chunk
  ELSE "choices" \notin DOMAIN chunk

TypeError == [message |-> <<"Cannot", "read", "properties", "of", "undefined">>]

DefaultErrorMessage(p) ==
  IF p = "anthropic" THEN <<"Anthropic", "API", "error">>
  ELSE <<"OpenAI", "API", "error">>

\* error.message || '<vendor> API error'
ErrorEvent(p, error) ==
  [type |-> "error",
   error |-> IF error.message # <<>> THEN error.message
             ELSE DefaultErrorMessage(p)]

ErrorLog(p, error) ==
  [level |-> "error",
   text |-> IF p = "anthropic" THEN "Anthropic streaming error:"
            ELSE "OpenAI streaming error:",
   error |-> error]

\* variant: the error is thrown on to the consumer
CatchRethrow(p, error) ==
  [yield |-> <<>>, gen |-> "completed", raised |-> TRUE]

\* variant: the error event is followed by a done event
CatchThenDone(p, error) ==
  [yield |-> <<ErrorEvent(p, error), DoneEvent>>, gen |-> "yieldError",
   raised |-> FALSE]

\* the catch clause: log, then yield one error event
Catch(p, error) ==
  [yield |-> <<ErrorEvent(p, error)>>, gen |-> "yieldError", raised |-> FALSE]

\* variant: the loop goes on after the consumer has left
ReturnKeepsDraining(g, s) ==
  IF g = "yieldContent" THEN [gen |-> "awaitChunk", stream |-> s]
  ELSE [gen |-> "completed", stream |-> s]

\* variant: the vendor stream is not closed
ReturnLeavesOpen(g, s) == [gen |-> "completed", stream |-> s]

\* generator.return() while suspended: a return completion at the yield
\* inside for await closes the iterator of the vendor stream; no catch
\* clause runs for a return completion
GeneratorReturn(g, s) ==
  [gen |-> "completed",
   stream |-> IF g = "yieldContent" THEN "closed" ELSE s]

(***************************************************************************)
(* Requests                                                                *)
(***************************************************************************)
\* the request streamAnalysis sends when the generator starts running
StreamRequest(svc, prompt, systemPrompt) ==
  IF svc.provider = "anthropic"
  THEN [api |-> "messages.stream",
        client |-> svc.client,
        model |-> svc.model,
        max_tokens |-> 16000,
        messages |-> <<[role |-> "user", content |-> prompt]>>,
        system |-> systemPrompt]
  ELSE [api |-> "chat.completions.create",
        client |-> svc.client,
        model |-> svc.model,
        max_tokens |-> 16000,
        messages |->
          (IF Truthy(systemPrompt)
           THEN <<[role |-> "system", content |-> systemPrompt]>>
           ELSE <<>>) \o <<[role |-> "user", content |-> prompt]>>,
        stream |-> TRUE]

(***************************************************************************)
(* Initial values                                                          *)
(***************************************************************************)
\* the instances create returns for the configs callers hand to it
Services == {create(c).ret.instance : c \in {k \in Configs : create(k).ret.ok}}

NoCall == [op |-> "none"]

\* no instance under consideration was created through a recorded config
NoConfig == [provider |-> "none"]

\* getModelInfo has not been called
NoInfo == [provider |-> "none"]

\* an environment that sets both API keys and nothing else
KeysOnlyEnv ==
  [AI_PROVIDER |-> undefined,
   ANTHROPIC_API_KEY |-> "sk-ant-1",
   ANTHROPIC_BASE_URL |-> undefined,
   ANTHROPIC_MODEL |-> undefined,
   OPENAI_API_KEY |-> "sk-oai-1",
   OPENAI_BASE_URL |-> undefined,
   OPENAI_MODEL |-> undefined]

\* no streamAnalysis call is running
StreamIdle ==
  /\ gen = "start"
  /\ stream = "unopened"
  /\ emitted = <<>>
  /\ events = <<>>
  /\ raised = FALSE
  /\ abandoned = FALSE

\* nothing has been created, requested or logged
FactoryIdle ==
  /\ instances = <<>>
  /\ clients = <<>>
  /\ requests = <<>>
  /\ log = <<>>
  /\ result = NoCall
  /\ aiConfig = NoConfig
  /\ info = NoInfo

(***************************************************************************)
(* Actions of one streamAnalysis call                                      *)
(***************************************************************************)
\* the consumer asks for the next event: the generator resumes; on the
\* first call it runs up to the await of the vendor call that opens the
\* stream
ConsumerNext ==
  /\ gen \in {"start", "yieldContent", "yieldDone", "yieldError"}
  /\ gen' = CASE gen = "start" -> "awaitOpen"
              [] gen = "yieldContent" -> "awaitChunk"
              [] OTHER -> "completed"
  /\ \E systemPrompt \in {undefined, "You are an analyst"} :
       requests' = IF gen = "start"
                   THEN Append(requests,
                               StreamRequest(service, "Analyze", systemPrompt))
                   ELSE requests
  /\ UNCHANGED <<service, stream, emitted, events, raised, abandoned, log>>
  /\ UNCHANGED <<factoryVars, result>>
  /\ UNCHANGED infoVars

\* await this.client.messages.stream(...) / chat.completions.create(...)
VendorOpen ==
  /\ gen = "awaitOpen"
  /\ stream' = "open"
  /\ gen' = "awaitChunk"
  /\ UNCHANGED <<service, emitted, events, raised, abandoned, log>>
  /\ UNCHANGED <<factoryVars, result, requests>>
  /\ UNCHANGED infoVars

\* the call that opens the stream rejects
VendorOpenFails ==
  /\ gen = "awaitOpen"
  /\ \E error \in Errors :
       LET c == Catch(service.provider, error)
       IN /\ events' = events \o c.yield
          /\ gen' = c.gen
          /\ raised' = c.raised
          /\ log' = Append(log, ErrorLog(service.provider, error))
  /\ stream' = "failed"
  /\ UNCHANGED <<service, emitted, abandoned>>
  /\ UNCHANGED <<factoryVars, result, requests>>
  /\ UNCHANGED infoVars

\* for await (const chunk of stream): the vendor delivers a chunk and the
\* loop body runs; a body that throws leaves the loop, which closes the
\* stream's iterator, and enters the catch clause
VendorChunkFrom(chunks, max) ==
  /\ gen = "awaitChunk"
  /\ stream = "open"
  /\ Len(emitted) < max
  /\ \E chunk \in chunks :
       /\ emitted' = Append(emitted, chunk)
       /\ IF ChunkThrows(service.provider, chunk)
          THEN LET c == Catch(service.provider, TypeError)
               IN /\ events' = events \o c.yield
                  /\ gen' = c.gen
                  /\ raised' = c.raised
                  /\ log' = Append(log, ErrorLog(service.provider, TypeError))
                  /\ stream' = "closed"
          ELSE LET ys == ChunkYield(service.provider, chunk)
               IN /\ events' = events \o ys
                  /\ gen' = IF ys # <<>> THEN "yieldContent" ELSE "awaitChunk"
                  /\ UNCHANGED <<stream, raised, log>>
  /\ UNCHANGED <<service, abandoned>>
  /\ UNCHANGED <<factoryVars, result, requests>>
  /\ UNCHANGED infoVars

\* one streamAnalysis call on its own: any vendor chunk, up to MaxChunks
VendorChunk == VendorChunkFrom(VendorChunks(service.provider), MaxChunks)

\* the vendor stream ends normally: the loop exits, yield { type: 'done' }
VendorClose ==
  /\ gen = "awaitChunk"
  /\ stream = "open"
  /\ stream' = "ended"
  /\ events' = Append(events, DoneEvent)
  /\ gen' = "yieldDone"
  /\ UNCHANGED <<service, emitted, raised, abandoned, log>>
  /\ UNCHANGED <<factoryVars, result, requests>>
  /\ UNCHANGED infoVars

\* the vendor stream fails while the adapter awaits the next chunk
VendorFails ==
  /\ gen = "awaitChunk"
  /\ stream = "open"
  /\ \E error \in Errors :
       LET c == Catch(service.provider, error)
       IN /\ events' = events \o c.yield
          /\ gen' = c.gen
          /\ raised' = c.raised
          /\ log' = Append(log, ErrorLog(service.provider, error))
  /\ stream' = "failed"
  /\ UNCHANGED <<service, emitted, abandoned>>
  /\ UNCHANGED <<factoryVars, result, requests>>
  /\ UNCHANGED infoVars

\* the consumer leaves its for await loop early (break): generator.return()
ConsumerReturn ==
  /\ gen \in {"start", "yieldContent", "yieldDone", "yieldError"}
  /\ LET r == GeneratorReturn(gen, stream)
     IN /\ gen' = r.gen
        /\ stream' = r.stream
  /\ abandoned' = (gen \in {"start", "yieldContent"})
  /\ UNCHANGED <<service, emitted, events, raised, log>>
  /\ UNCHANGED <<factoryVars, result, requests>>
  /\ UNCHANGED infoVars

InitStream ==
  /\ env = KeysOnlyEnv
  /\ service \in Services
  /\ StreamIdle
  /\ FactoryIdle

NextStream ==
  \/ ConsumerNext
  \/ VendorOpen
  \/ VendorOpenFails
  \/ VendorChunk
  \/ VendorClose
  \/ VendorFails
  \/ ConsumerReturn

SpecStream == InitStream /\ [][NextStream]_vars

(***************************************************************************)
(* Calls of the factory's static methods                                   *)
(***************************************************************************)
\* AIServiceFactory.create(config), with a config written by the caller or
\* the one getConfigFromEnv has just returned
CallCreate ==
  /\ Len(log) < MaxCreates
  /\ \E config \in Configs \cup
                   (IF result.op = "getConfigFromEnv" /\ result.ret.ok
                    THEN {result.ret.config} ELSE {}) :
       LET c == create(config)
       IN /\ log' = log \o c.logged
          /\ clients' = clients \o c.constructed
          /\ instances' = IF c.ret.ok THEN Append(instances, c.ret.instance)
                          ELSE instances
          /\ result' = [op |-> "create", arg |-> config, ret |-> c.ret]
  /\ UNCHANGED <<env, requests, streamVars>>
  /\ UNCHANGED infoVars

\* AIServiceFactory.getConfigFromEnv(provider)
CallGetConfigFromEnv ==
  /\ \E p \in ProviderArgs :
       result' = [op |-> "getConfigFromEnv", arg |-> p,
                  ret |-> getConfigFromEnv(env, p)]
  /\ UNCHANGED <<env, instances, clients, requests, log, streamVars>>
  /\ UNCHANGED infoVars

\* AIServiceFactory.isProviderConfigured(provider)
CallIsProviderConfigured ==
  /\ \E p \in ProviderArgs :
       result' = [op |-> "isProviderConfigured", arg |-> p,
                  ret |-> isProviderConfigured(env, p)]
  /\ UNCHANGED <<env, instances, clients, requests, log, streamVars>>
  /\ UNCHANGED infoVars

\* AIServiceFactory.getAvailableProviders()
CallGetAvailableProviders ==
  /\ result' = [op |-> "getAvailableProviders",
                ret |-> getAvailableProviders(env)]
  /\ UNCHANGED <<env, instances, clients, requests, log, streamVars>>
  /\ UNCHANGED infoVars

InitFactory ==
  /\ env \in Environments
  /\ service = [provider |-> "none"]
  /\ StreamIdle
  /\ FactoryIdle

NextFactory ==
  \/ CallCreate
  \/ CallGetConfigFromEnv
  \/ CallIsProviderConfigured
  \/ CallGetAvailableProviders

SpecFactory == InitFactory /\ [][NextFactory]_vars

(***************************************************************************)
(* visionAnalysis                                                          *)
(***************************************************************************)
\* media types and base64 payloads, as token sequences; <<>> is ''
MediaTypes == {<<>>, <<"image/png">>, <<"image/", "svg+xml">>}

Base64Payloads == {<<>>, <<"iVBORw0K">>, <<"QUJD", "REVG">>}

\* VisionMessage values; the optional fields text and image may be missing
VisionMessages ==
  {[type |-> "text"], [type |-> "image"]}
  \cup {[type |-> "text", text |-> t] : t \in {"", "Describe the diagram"}}
  \cup {[type |-> "image", image |-> [base64Data |-> d, mediaType |-> m]] :
          d \in Base64Payloads, m \in MediaTypes}

\* the VisionMessage[] arguments of at most n messages
VisionInputs(n) == UNION {[1..k -> VisionMessages] : k \in 0..n}

\* options?.maxTokens, 0 standing for an absent options or maxTokens
MaxTokensOptions == {0, 1000}

\* msg.type === 'text' && msg.text
IsTextMessage(msg) ==
  msg.type = "text" /\ "text" \in DOMAIN msg /\ Truthy(msg.text)

\* msg.type === 'image' && msg.image
IsImageMessage(msg) == msg.type = "image" /\ "image" \in DOMAIN msg

\* variant: media_type and data swapped
AnthropicEntrySwapped(msg) ==
  IF IsTextMessage(msg) THEN <<[type |-> "text", text |-> msg.text]>>
  ELSE IF IsImageMessage(msg)
  THEN <<[type |-> "image",
          source |-> [type |-> "base64",
                      media_type |-> msg.image.base64Data,
                      data |-> msg.image.mediaType]]>>
  ELSE <<>>

\* what one pass of AnthropicService's loop pushes onto content
AnthropicEntry(msg) ==
  IF IsTextMessage(msg) THEN <<[type |-> "text", text |-> msg.text]>>
  ELSE IF IsImageMessage(msg)
  THEN <<[type |-> "image",
          source |-> [type |-> "base64",
                      media_type |-> msg.image.mediaType,
                      data |-> msg.image.base64Data]]>>
  ELSE <<>>

\* `data:${mediaType};base64,${base64Data}`
DataUrl(mediaType, base64Data) ==
  <<"data:">> \o mediaType \o <<";base64,">> \o base64Data

\* variant: the media type is fixed to image/png
OpenAIEntryNoMediaType(msg) ==
  IF IsTextMessage(msg) THEN <<[type |-> "text", text |-> msg.text]>>
  ELSE IF IsImageMessage(msg)
  THEN <<[type |-> "image_url",
          image_url |-> [url |-> DataUrl(<<"image/png">>,
                                         msg.image.base64Data)]]>>
  ELSE <<>>

\* what one pass of OpenAIService's loop pushes onto content
OpenAIEntry(msg) ==
  IF IsTextMessage(msg) THEN <<[type |-> "text", text |-> msg.text]>>
  ELSE IF IsImageMessage(msg)
  THEN <<[type |-> "image_url",
          image_url |-> [url |-> DataUrl(msg.image.mediaType,
                                         msg.image.base64Data)]]>>
  ELSE <<>>

RECURSIVE VisionContent(_, _)
\* for (const msg of messages) { ... content.push(...) }
VisionContent(p, messages) ==
  IF messages = <<>> THEN <<>>
  ELSE (IF p = "anthropic" THEN AnthropicEntry(Head(messages))
        ELSE OpenAIEntry(Head(messages)))
       \o VisionContent(p, Tail(messages))

\* options?.maxTokens || 4000
VisionMaxTokens(maxTokens) == IF maxTokens # 0 THEN maxTokens ELSE 4000

\* the request visionAnalysis sends
VisionRequest(svc, messages, maxTokens) ==
  [api |-> IF svc.provider = "anthropic" THEN "messages.create"
           ELSE "chat.completions.create",
   client |-> svc.client,
   model |-> svc.model,
   max_tokens |-> VisionMaxTokens(maxTokens),
   messages |-> <<[role |-> "user",
                   content |-> VisionContent(svc.provider, messages)]>>]

\* complete responses of the Anthropic messages API
AnthropicResponses ==
  LET blocks == {[type |-> "text", text |-> "Answer"],
                 [type |-> "text", text |-> ""],
                 [type |-> "tool_use"]}
  IN {[content |-> c] : c \in UNION {[1..k -> blocks] : k \in 0..2}}

\* complete responses of the OpenAI chat completions API
OpenAIResponses ==
  {[choices |-> <<>>], [choices |-> <<[message |-> [role |-> "assistant"]]>>]}
  \cup {[choices |-> <<[message |-> [role |-> "assistant", content |-> c]]>>] :
          c \in {"", "Answer"}}

VendorResponses(p) ==
  IF p = "anthropic" THEN AnthropicResponses ELSE OpenAIResponses

\* response.content[0]?.type === 'text' ? response.content[0].text : ''
AnthropicResponseText(response) ==
  IF Len(response.content) = 0 THEN ""
  ELSE IF response.content[1].type = "text" THEN response.content[1].text
  ELSE ""

\* response.choices[0]?.message?.content || ''
OpenAIResponseText(response) ==
  IF Len(response.choices) = 0 THEN ""
  ELSE IF "content" \in DOMAIN response.choices[1].message
       THEN Or(response.choices[1].message.content, "")
       ELSE ""

ResponseText(p, response) ==
  IF p = "anthropic" THEN AnthropicResponseText(response)
  ELSE OpenAIResponseText(response)

\* visionAnalysis(messages, options) is called: content is built and the
\* request is sent; the call then awaits the vendor
VisionCallWith(inputs) ==
  /\ result = NoCall
  /\ \E messages \in inputs, maxTokens \in MaxTokensOptions :
       /\ requests' = Append(requests,
                             VisionRequest(service, messages, maxTokens))
       /\ result' = [op |-> "visionAnalysis",
                     arg |-> [messages |-> messages, maxTokens |-> maxTokens],
                     state |-> "awaiting"]
  /\ UNCHANGED <<service, gen, stream, emitted, events, raised, abandoned>>
  /\ UNCHANGED <<factoryVars, log>>
  /\ UNCHANGED infoVars

\* one visionAnalysis call on its own: any input of up to MaxFragments
\* fragments
VisionCall == VisionCallWith(VisionInputs(MaxFragments))

\* the vendor answers: the text is extracted and returned
VisionResponse ==
  /\ result.op = "visionAnalysis"
  /\ result.state = "awaiting"
  /\ \E response \in VendorResponses(service.provider) :
       result' = [op |-> "visionAnalysis", arg |-> result.arg,
                  state |-> "returned", response |-> response,
                  value |-> ResponseText(service.provider, response)]
  /\ UNCHANGED <<streamVars, factoryVars, requests, log>>
  /\ UNCHANGED infoVars

\* the vendor call rejects: visionAnalysis has no catch clause, the vendor's
\* error reaches the caller as it is
VisionRejects ==
  /\ result.op = "visionAnalysis"
  /\ result.state = "awaiting"
  /\ \E error \in Errors :
       result' = [op |-> "visionAnalysis", arg |-> result.arg,
                  state |-> "thrown", thrown |-> error]
  /\ UNCHANGED <<streamVars, factoryVars, requests, log>>
  /\ UNCHANGED infoVars

InitVision ==
  /\ env = KeysOnlyEnv
  /\ service \in Services
  /\ StreamIdle
  /\ FactoryIdle

NextVision ==
  \/ VisionCall
  \/ VisionResponse
  \/ VisionRejects

SpecVision == InitVision /\ [][NextVision]_vars

(***************************************************************************)
(* Vocabulary of the stream claims                                         *)
(***************************************************************************)
RECURSIVE Concat(_)
\* the texts of a sequence, joined in order
Concat(ts) == IF ts = <<>> THEN <<>> ELSE Head(ts) \o Concat(Tail(ts))

RECURSIVE VendorTexts(_, _)
\* the text carried by each content chunk of a vendor stream, in emission
\* order: Anthropic text deltas, OpenAI deltas that have a content string
VendorTexts(p, chunks) ==
  IF chunks = <<>> THEN <<>>
  ELSE LET c == Head(chunks)
           t == IF p = "anthropic"
                THEN IF c.type = "content_block_delta" /\ "delta" \in DOMAIN c
                     THEN IF c.delta.type = "text_delta"
                          THEN <<c.delta.text>> ELSE <<>>
                     ELSE <<>>
                ELSE IF "choices" \notin DOMAIN c THEN <<>>
                     ELSE IF c.choices = <<>> THEN <<>>
                     ELSE IF "content" \in DOMAIN c.choices[1].delta
                          THEN <<c.choices[1].delta.content>> ELSE <<>>
       IN t \o VendorTexts(p, Tail(chunks))

IsNonEmptyText(t) == t # <<>>

\* the chunks each adapter forwards: Anthropic every text delta, OpenAI
\* every delta whose content is not the empty string
ForwardedTexts(p, chunks) ==
  IF p = "anthropic" THEN VendorTexts(p, chunks)
  ELSE SelectSeq(VendorTexts(p, chunks), IsNonEmptyText)

IsContent(e) == e.type = "content"

IsTerminal(e) == e.type \in {"done", "error"}

ContentEvents == SelectSeq(events, IsContent)

TerminalEvents == SelectSeq(events, IsTerminal)

\* the texts of the content events the consumer has observed
ObservedTexts == [i \in 1..Len(ContentEvents) |-> ContentEvents[i].text]

\* the events before the last one
Front(s) == SubSeq(s, 1, Len(s) - 1)

(***************************************************************************)
(* C1: whatever the vendor transport does, the events of one               *)
(* streamAnalysis call are zero or more content events followed by exactly *)
(* one done or exactly one error, and nothing after it; the sequence is    *)
(* finite (at most one event per vendor chunk, plus the terminal one).     *)
(***************************************************************************)
C1_WellFormedStream ==
  /\ \A i \in 1..Len(events) : events[i].type \in {"content", "done", "error"}
  /\ \A i \in 1..Len(events) : i < Len(events) => events[i].type = "content"
  /\ Len(events) <= Len(emitted) + 1
  /\ (gen = "completed" /\ ~abandoned) =>
       /\ Len(TerminalEvents) = 1
       /\ IsTerminal(events[Len(events)])

\* a stream that failed after two content events was consumed to its end
C1_Witness ==
  /\ gen = "completed"
  /\ ~abandoned
  /\ Len(events) = 3
  /\ events[3].type = "error"

(***************************************************************************)
(* C2 as stated: after N content chunks and a normal close the consumer    *)
(* has observed exactly N content events, one per chunk in emission order, *)
(* followed by exactly one done.                                           *)
(***************************************************************************)
C2_OneEventPerChunk ==
  stream = "ended" =>
    /\ ObservedTexts = VendorTexts(service.provider, emitted)
    /\ events = Front(events) \o <<DoneEvent>>
    /\ Len(TerminalEvents) = 1

(***************************************************************************)
(* C2 amended: after a normal close the consumer has observed one content  *)
(* event per chunk the adapter forwards (Anthropic: every text delta;      *)
(* OpenAI: every delta whose content is not the empty string), in emission *)
(* order, their texts concatenating to the full response, followed by      *)
(* exactly one done and no error.                                          *)
(***************************************************************************)
C2_ForwardedInOrderThenDone ==
  stream = "ended" =>
    /\ ObservedTexts = ForwardedTexts(service.provider, emitted)
    /\ Concat(ObservedTexts) = Concat(VendorTexts(service.provider, emitted))
    /\ events = Front(events) \o <<DoneEvent>>
    /\ Len(TerminalEvents) = 1

\* three content chunks, then a normal close
C2_Witness ==
  /\ stream = "ended"
  /\ Len(VendorTexts(service.provider, emitted)) = MaxChunks
  /\ Len(ContentEvents) >= 2
  /\ events[Len(events)] = DoneEvent

(***************************************************************************)
(* C3 as stated: when the vendor fails after k content chunks (k >= 0,     *)
(* opening included) the consumer has observed exactly those k content     *)
(* events, then exactly one error, no done, and no exception.              *)
(***************************************************************************)
C3_ErrorAfterEveryChunk ==
  stream = "failed" =>
    /\ ObservedTexts = VendorTexts(service.provider, emitted)
    /\ events # <<>>
    /\ events[Len(events)].type = "error"
    /\ Len(TerminalEvents) = 1
    /\ ~raised

(***************************************************************************)
(* C3 amended: when the vendor fails after k content chunks the consumer   *)
(* has observed the content events of those chunks the adapter forwards    *)
(* (Anthropic: every text delta; OpenAI: every delta whose content is not  *)
(* the empty string), then exactly one error, no done, and no exception.   *)
(***************************************************************************)
C3_ErrorAfterForwardedChunks ==
  stream = "failed" =>
    /\ ObservedTexts = ForwardedTexts(service.provider, emitted)
    /\ events # <<>>
    /\ events[Len(events)].type = "error"
    /\ Len(TerminalEvents) = 1
    /\ ~raised

\* the vendor failed in mid-stream after two content chunks
C3_Witness ==
  /\ stream = "failed"
  /\ Len(ContentEvents) = 2
  /\ events[3].type = "error"

(***************************************************************************)
(* C4: once the consumer has left the iteration before the terminal event, *)
(* the vendor stream is closed (or was never opened) and the adapter can   *)
(* pull no further chunk from it.                                          *)
(***************************************************************************)
C4_EarlyExitClosesStream ==
  abandoned =>
    /\ stream \in {"unopened", "closed"}
    /\ ~ENABLED VendorChunk
    /\ ~ENABLED VendorClose
    /\ ~ENABLED VendorFails

\* the consumer left after the first content event of a longer stream
C4_Witness ==
  /\ abandoned
  /\ stream = "closed"
  /\ Len(events) = 1
  /\ Len(emitted) < MaxChunks

(***************************************************************************)
(* Vocabulary of the factory claims                                        *)
(***************************************************************************)
\* a setting or argument counts as present when it is set and not empty
Present(v) == v # undefined /\ v # ""

KnownIdentities == <<"anthropic", "openai">>

IsKnownIdentity(id) == \E i \in 1..Len(KnownIdentities) : KnownIdentities[i] = id

\* p if supplied, else the AI_PROVIDER setting, else 'anthropic'
ResolvedIdentity(e, p) ==
  IF Present(p) THEN p
  ELSE IF Present(e.AI_PROVIDER) THEN e.AI_PROVIDER
  ELSE "anthropic"

ApiKeyOf(e, id) ==
  CASE id = "anthropic" -> e.ANTHROPIC_API_KEY
    [] id = "openai" -> e.OPENAI_API_KEY
    [] OTHER -> undefined

BaseUrlOf(e, id) ==
  CASE id = "anthropic" -> e.ANTHROPIC_BASE_URL
    [] id = "openai" -> e.OPENAI_BASE_URL
    [] OTHER -> undefined

ModelOf(e, id) ==
  CASE id = "anthropic" -> e.ANTHROPIC_MODEL
    [] id = "openai" -> e.OPENAI_MODEL
    [] OTHER -> undefined

IsMissingCredential(error) == Len(error) = 2 /\ error[2] = "not configured"

IsInvalidProvider(error, id) == error = <<"Invalid AI provider:", id>>

IsUnsupportedProvider(error, id) == error = <<"Unsupported AI provider:", id>>

\* the config getConfigFromEnv is to return for identity id
ExpectedConfig(e, id) ==
  [provider |-> id, apiKey |-> ApiKeyOf(e, id), baseURL |-> BaseUrlOf(e, id),
   model |-> ModelOf(e, id)]

(***************************************************************************)
(* C5 as stated: getConfigFromEnv(p) resolves the identity as p, else      *)
(* AI_PROVIDER, else 'anthropic'; it fails with the missing-credential     *)
(* condition when that identity's API key is absent and succeeds           *)
(* otherwise, returning the identity, its key and its overrides.           *)
(***************************************************************************)
C5_MissingCredentialOrConfig ==
  result.op = "getConfigFromEnv" =>
    LET id == ResolvedIdentity(env, result.arg)
    IN IF ~Present(ApiKeyOf(env, id))
       THEN ~result.ret.ok /\ IsMissingCredential(result.ret.error)
       ELSE result.ret.ok /\ result.ret.config = ExpectedConfig(env, id)

(***************************************************************************)
(* C5 amended: as stated, except that when the resolved identity is not a  *)
(* known identity getConfigFromEnv fails with the invalid-provider         *)
(* condition naming it, rather than with the missing-credential one.       *)
(***************************************************************************)
C5_InvalidOrMissingOrConfig ==
  result.op = "getConfigFromEnv" =>
    LET id == ResolvedIdentity(env, result.arg)
    IN IF ~IsKnownIdentity(id)
       THEN ~result.ret.ok /\ IsInvalidProvider(result.ret.error, id)
       ELSE IF ~Present(ApiKeyOf(env, id))
       THEN /\ ~result.ret.ok
            /\ IsMissingCredential(result.ret.error)
       ELSE result.ret.ok /\ result.ret.config = ExpectedConfig(env, id)

\* no argument, AI_PROVIDER selects openai, whose key and overrides are set
C5_Witness ==
  /\ result.op = "getConfigFromEnv"
  /\ result.arg = undefined
  /\ env.AI_PROVIDER = "openai"
  /\ result.ret.ok
  /\ result.ret.config.provider = "openai"
  /\ result.ret.config.model = "gpt-4-turbo"

(***************************************************************************)
(* C6: isProviderConfigured(p) never raises; it returns true exactly when  *)
(* getConfigFromEnv(p) succeeds and false exactly when it raises.          *)
(***************************************************************************)
C6_ConfiguredIffConfigSucceeds ==
  result.op = "isProviderConfigured" =>
    /\ ~result.ret.threw
    /\ result.ret.value = getConfigFromEnv(env, result.arg).ok

\* asked about an identity for which getConfigFromEnv raises
C6_Witness ==
  /\ result.op = "isProviderConfigured"
  /\ ~getConfigFromEnv(env, result.arg).ok
  /\ result.ret.value = FALSE

(***************************************************************************)
(* C7: getAvailableProviders returns exactly the known identities whose    *)
(* API key is present, anthropic before openai, whatever calls of create,  *)
(* getConfigFromEnv, isProviderConfigured and getAvailableProviders came   *)
(* before; none of those calls changes the environment.                    *)
(***************************************************************************)
C7_AvailableProviders ==
  /\ [](result.op = "getAvailableProviders" =>
          result.ret = SelectSeq(KnownIdentities,
                                 LAMBDA id : Present(ApiKeyOf(env, id))))
  /\ [][env' = env]_vars

\* both keys set, asked after two calls of create
C7_Witness ==
  /\ result.op = "getAvailableProviders"
  /\ result.ret = <<"anthropic", "openai">>
  /\ Len(log) = MaxCreates

(***************************************************************************)
(* C8 as stated: create with an unknown identity fails with the            *)
(* unsupported-provider condition, returns no instance, constructs no      *)
(* vendor client and has no other side effect; with a known identity it    *)
(* returns an adapter of that identity and issues no network request.      *)
(***************************************************************************)
C8_FailedCreateHasNoEffect ==
  [][result'.op = "create" =>
       IF IsKnownIdentity(result'.arg.provider)
       THEN /\ result'.ret.ok
            /\ result'.ret.instance.provider = result'.arg.provider
            /\ instances' = Append(instances, result'.ret.instance)
            /\ requests' = requests
       ELSE /\ ~result'.ret.ok
            /\ IsUnsupportedProvider(result'.ret.error, result'.arg.provider)
            /\ UNCHANGED <<env, instances, clients, requests, log>>]_vars

(***************************************************************************)
(* C8 amended: as stated, except that the failing create has one side      *)
(* effect: the informational log line written before the dispatch.         *)
(***************************************************************************)
C8_FailedCreateOnlyLogs ==
  [][result'.op = "create" =>
       IF IsKnownIdentity(result'.arg.provider)
       THEN /\ result'.ret.ok
            /\ result'.ret.instance.provider = result'.arg.provider
            /\ instances' = Append(instances, result'.ret.instance)
            /\ requests' = requests
       ELSE /\ ~result'.ret.ok
            /\ IsUnsupportedProvider(result'.ret.error, result'.arg.provider)
            /\ UNCHANGED <<env, instances, clients, requests>>
            /\ Len(log') = Len(log) + 1
            /\ log'[Len(log')].level = "info"]_vars

\* a create that failed after one that succeeded
C8_Witness ==
  /\ result.op = "create"
  /\ ~result.ret.ok
  /\ Len(instances) = 1
  /\ Len(clients) = 1
  /\ requests = <<>>

(***************************************************************************)
(* Vocabulary of the vision claims                                         *)
(***************************************************************************)
\* an image fragment carries a non-empty media type and a non-empty payload
IsWellFormedFragment(msg) ==
  msg.type = "image" =>
    /\ "image" \in DOMAIN msg
    /\ msg.image.mediaType # <<>>
    /\ msg.image.base64Data # <<>>

\* at least one fragment, every image fragment well formed
IsValidVisionInput(messages) ==
  /\ messages # <<>>
  /\ \A i \in 1..Len(messages) : IsWellFormedFragment(messages[i])

\* the content of the single user message of the request that was sent
SentContent == requests[1].messages[1].content

\* the place of the first ";base64," token of a data URL (0: none)
SeparatorAt(url) ==
  LET at == {i \in 1..Len(url) : url[i] = ";base64,"}
  IN IF at = {} THEN 0 ELSE CHOOSE i \in at : \A j \in at : i <= j

\* the media type and payload read back from a request's image entry
DecodeImage(entry) ==
  IF entry.type = "image"
  THEN [mediaType |-> entry.source.media_type, base64Data |-> entry.source.data]
  ELSE LET url == entry.image_url.url
           k == SeparatorAt(url)
       IN [mediaType |-> SubSeq(url, 2, k - 1),
           base64Data |-> SubSeq(url, k + 1, Len(url))]

IsImageEntry(p, entry) ==
  IF p = "anthropic"
  THEN entry.type = "image" /\ entry.source.type = "base64"
  ELSE /\ entry.type = "image_url"
       /\ entry.image_url.url[1] = "data:"
       /\ SeparatorAt(entry.image_url.url) > 1

\* entry is the serialization of fragment msg for provider p
Serializes(p, entry, msg) ==
  IF msg.type = "text"
  THEN "text" \in DOMAIN msg /\ entry = [type |-> "text", text |-> msg.text]
  ELSE /\ "image" \in DOMAIN msg
       /\ IsImageEntry(p, entry)
       /\ DecodeImage(entry) = [mediaType |-> msg.image.mediaType,
                                base64Data |-> msg.image.base64Data]

\* the fragments the adapters keep: text fragments with a non-empty text
\* and image fragments that carry an image object
IsKeptFragment(msg) ==
  IF msg.type = "text" THEN "text" \in DOMAIN msg /\ msg.text # ""
  ELSE "image" \in DOMAIN msg

(***************************************************************************)
(* C9: visionAnalysis called with an empty content sequence, or with an    *)
(* image fragment whose media type or payload is empty, fails with an      *)
(* input-validation condition and no request is ever issued to the vendor. *)
(***************************************************************************)
C9_InvalidInputIssuesNoRequest ==
  (result.op = "visionAnalysis" /\ ~IsValidVisionInput(result.arg.messages)) =>
    /\ requests = <<>>
    /\ result.state = "thrown"

(***************************************************************************)
(* C10 as stated: for every non-empty content sequence the single user     *)
(* message sent to the vendor has one content entry per input fragment, in *)
(* input order, and each image entry decodes back to the fragment's        *)
(* base64 payload and media type.                                          *)
(***************************************************************************)
C10_OneEntryPerFragment ==
  (result.op = "visionAnalysis" /\ result.arg.messages # <<>>) =>
    /\ Len(requests) = 1
    /\ Len(requests[1].messages) = 1
    /\ requests[1].messages[1].role = "user"
    /\ Len(SentContent) = Len(result.arg.messages)
    /\ \A i \in 1..Len(SentContent) :
         Serializes(service.provider, SentContent[i], result.arg.messages[i])

(***************************************************************************)
(* C10 amended: for every non-empty content sequence the single user       *)
(* message sent to the vendor has one content entry per input fragment     *)
(* that is a text fragment with a non-empty text or an image fragment      *)
(* carrying an image object (the other fragments are skipped), in input    *)
(* order, and each image entry decodes back to the fragment's base64       *)
(* payload and media type.                                                 *)
(***************************************************************************)
C10_OneEntryPerKeptFragment ==
  (result.op = "visionAnalysis" /\ result.arg.messages # <<>>) =>
    LET kept == SelectSeq(result.arg.messages, IsKeptFragment)
    IN /\ Len(requests) = 1
       /\ Len(requests[1].messages) = 1
       /\ requests[1].messages[1].role = "user"
       /\ Len(SentContent) = Len(kept)
       /\ \A i \in 1..Len(SentContent) :
            Serializes(service.provider, SentContent[i], kept[i])

\* OpenAI: a text fragment, then an image fragment with a two-token media
\* type and a two-token payload, sent as a data URL
C10_Witness ==
  /\ result.op = "visionAnalysis"
  /\ service.provider = "openai"
  /\ Len(result.arg.messages) = 2
  /\ result.arg.messages[1].type = "text"
  /\ result.arg.messages[2].type = "image"
  /\ Len(SentContent) = 2
  /\ SentContent[2].type = "image_url"
  /\ Len(SentContent[2].image_url.url) = 6

\* ---------------------------------------------------------------------
\* C12: the text visionAnalysis returns
\* ---------------------------------------------------------------------

\* the texts of the text-typed content blocks of a complete response, in the
\* order the vendor sent them
TextBlocks(p, response) ==
  IF p = "anthropic"
  THEN LET blocks == SelectSeq(response.content,
                               LAMBDA b : b.type = "text")
       IN [i \in 1..Len(blocks) |-> blocks[i].text]
  ELSE IF Len(response.choices) = 0 THEN <<>>
  ELSE IF "content" \in DOMAIN response.choices[1].message
       THEN <<response.choices[1].message.content>>
       ELSE <<>>

VisionReturned ==
  /\ result.op = "visionAnalysis"
  /\ result.state = "returned"

\* C12: when the complete response holds a text-typed content block,
\* visionAnalysis returns that block's text; when it holds none, it returns
\* the empty text.
C12_ReturnsTextBlock ==
  VisionReturned =>
    LET texts == TextBlocks(service.provider, result.response)
    IN IF Len(texts) > 0 THEN result.value = texts[1]
       ELSE result.value = ""

\* the half of C12 that holds: a response without a text-typed block is
\* answered with the empty text
C12_NoTextBlockGivesEmptyText ==
  (VisionReturned
     /\ Len(TextBlocks(service.provider, result.response)) = 0)
    => result.value = ""

(***************************************************************************)
(* getModelInfo, and one instance used for several calls                   *)
(***************************************************************************)
\* the streamAnalysis and visionAnalysis calls made on one instance
MaxCalls == 2

\* the chunks one stream delivers to an instance that serves several calls
MaxServiceChunks == 1

\* this.model.includes('gpt-4'), over the model names callers configure
IncludesGpt4(model) == model \in {"gpt-4o", "gpt-4-turbo"}

AnthropicGetModelInfo(svc) ==
  [provider |-> "Anthropic Claude", model |-> svc.model,
   supportsVision |-> TRUE]

OpenAIGetModelInfo(svc) ==
  [provider |-> "OpenAI ChatGPT", model |-> svc.model,
   supportsVision |-> IncludesGpt4(svc.model) \/ svc.model = "gpt-4o"]

\* variant: the descriptor names the vendor's default model
getModelInfoDefault(svc) ==
  IF svc.provider = "anthropic"
  THEN AnthropicGetModelInfo([svc EXCEPT !.model = "claude-sonnet-4-20250514"])
  ELSE OpenAIGetModelInfo([svc EXCEPT !.model = "gpt-4o"])

getModelInfo(svc) ==
  IF svc.provider = "anthropic" THEN AnthropicGetModelInfo(svc)
  ELSE OpenAIGetModelInfo(svc)

\* the configs callers hand to create for a known identity: no model, an
\* empty model, a model of their own
ServiceConfigs ==
  [provider : {"anthropic"}, apiKey : {"sk-1"}, baseURL : {undefined},
   model : {undefined, "", "claude-3-5-haiku-20241022"}]
  \cup [provider : {"openai"}, apiKey : {"sk-1"}, baseURL : {undefined},
        model : {undefined, "", "gpt-3.5-turbo", "gpt-4-turbo"}]

\* one chunk that is forwarded, one that is skipped, one that is malformed
ServiceChunks(p) ==
  IF p = "anthropic"
  THEN {[type |-> "message_start"], [type |-> "content_block_delta"],
        [type |-> "content_block_delta",
         delta |-> [type |-> "text_delta", text |-> <<"Ran">>]]}
  ELSE {[id |-> "chatcmpl-1"], [choices |-> <<>>],
        [choices |-> <<[delta |-> [content |-> <<"Ran">>]]>>]}

ServiceVisionInputs ==
  {<<[type |-> "text", text |-> "Describe the diagram"],
     [type |-> "image",
      image |-> [base64Data |-> <<"iVBORw0K">>,
                 mediaType |-> <<"image/png">>]]>>}

\* getModelInfo() is called on the instance
CallGetModelInfo ==
  /\ service.provider \in {"anthropic", "openai"}
  /\ info' = getModelInfo(service)
  /\ UNCHANGED <<streamVars, factoryVars, result, requests, log, aiConfig>>

\* the caller makes its calls one after the other: a call starts when no
\* generator is suspended and no visionAnalysis call is pending
BetweenCalls ==
  /\ gen = "start"
  /\ result = NoCall
  /\ Len(requests) < MaxCalls

ServiceConsumerNext ==
  /\ gen = "start" => BetweenCalls
  /\ ConsumerNext

ServiceVendorChunk ==
  VendorChunkFrom(ServiceChunks(service.provider), MaxServiceChunks)

ServiceVisionCall ==
  /\ BetweenCalls
  /\ VisionCallWith(ServiceVisionInputs)

\* the generator has completed and the caller drops it; a later
\* streamAnalysis call starts a new one
StreamAnalysisOver ==
  /\ gen = "completed"
  /\ gen' = "start"
  /\ stream' = "unopened"
  /\ emitted' = <<>>
  /\ events' = <<>>
  /\ raised' = FALSE
  /\ abandoned' = FALSE
  /\ UNCHANGED <<service, factoryVars, result, requests, log, infoVars>>

\* the caller has taken what visionAnalysis returned or threw
VisionAnalysisOver ==
  /\ result.op = "visionAnalysis"
  /\ result.state \in {"returned", "thrown"}
  /\ result' = NoCall
  /\ UNCHANGED <<streamVars, factoryVars, requests, log, infoVars>>

\* the state after const service = AIServiceFactory.create(config)
InitService ==
  /\ env = KeysOnlyEnv
  /\ aiConfig \in ServiceConfigs
  /\ service = create(aiConfig).ret.instance
  /\ instances = <<create(aiConfig).ret.instance>>
  /\ clients = create(aiConfig).constructed
  /\ log = create(aiConfig).logged
  /\ requests = <<>>
  /\ result = NoCall
  /\ info = NoInfo
  /\ StreamIdle

NextService ==
  \/ CallGetModelInfo
  \/ ServiceConsumerNext
  \/ VendorOpen
  \/ VendorOpenFails
  \/ ServiceVendorChunk
  \/ VendorClose
  \/ VendorFails
  \/ ConsumerReturn
  \/ StreamAnalysisOver
  \/ ServiceVisionCall
  \/ VisionResponse
  \/ VisionRejects
  \/ VisionAnalysisOver

SpecService == InitService /\ [][NextService]_vars

\* ---------------------------------------------------------------------
\* C11: the descriptor getModelInfo returns
\* ---------------------------------------------------------------------

VendorDefaultModel(p) ==
  IF p = "anthropic" THEN "claude-sonnet-4-20250514" ELSE "gpt-4o"

\* the model name the descriptor is to report for a config
ExpectedModel(c) ==
  IF Present(c.model) THEN c.model ELSE VendorDefaultModel(c.provider)

\* a streamAnalysis call has failed: its error was logged
StreamHasFailed ==
  \E i \in 1..Len(log) : log[i].level = "error"

VisionHasFailed ==
  /\ result.op = "visionAnalysis"
  /\ result.state = "thrown"

\* C11: for an instance create returned for a known identity, getModelInfo
\* reports the model of the config, or the vendor's default model when the
\* config supplies none, and every call returns the descriptor the previous
\* call returned, whatever streamAnalysis and visionAnalysis calls, successful
\* or failed, were made in between.
C11_ModelInfoFromConfigAndStable ==
  /\ [](info # NoInfo => info.model = ExpectedModel(aiConfig))
  /\ [][info # NoInfo => info' = info]_vars

\* a descriptor naming the caller's own model has been returned on an
\* instance on which a streamAnalysis call and a visionAnalysis call failed
C11_Witness ==
  /\ info # NoInfo
  /\ Present(aiConfig.model)
  /\ info.model = aiConfig.model
  /\ info.model # VendorDefaultModel(aiConfig.provider)
  /\ Len(requests) >= 2
  /\ StreamHasFailed
  /\ VisionHasFailed

\* ---------------------------------------------------------------------
\* C13: how failures reach the caller
\* ---------------------------------------------------------------------

\* every error event carries the identity of the provider next to its message
ErrorEventsNameProvider ==
  \A i \in 1..Len(events) :
    events[i].type = "error"
      => /\ "provider" \in DOMAIN events[i]
         /\ events[i].provider = service.provider

\* streamAnalysis never throws: a failure is an error event
StreamNeverThrows == ~raised

\* what visionAnalysis throws is not an error object of the vendor
VisionThrowsNoVendorError ==
  VisionHasFailed => result.thrown \notin Errors

\* C13: a vendor or transport failure reaches the caller only as a flattened,
\* provider-tagged message: the error event names the provider next to its
\* message, and neither streamAnalysis nor visionAnalysis hands the caller an
\* error object of the vendor.
C13_FailuresFlattenedAndTagged ==
  /\ ErrorEventsNameProvider
  /\ StreamNeverThrows
  /\ VisionThrowsNoVendorError

====
